---- MODULE Spec2Model ----
(***************************************************************************)
(* A model of tfcoro::awaitable_event (include/sync.h): the shared state   *)
(* with its mutex, intrusive wait list (head, last), the three-phase       *)
(* awaiter protocol and set(), driven by waiter and setter threads as in   *)
(* src/testbed/main.cpp.                                                   *)
(*                                                                         *)
(* Pointers.  A node* is a waiter id, or NullNode for nullptr.  A node**   *)
(* (the type of `last`) is NullSlot for nullptr, HeadSlot for &head, or a  *)
(* waiter id i for &n_i.next.                                              *)
(***************************************************************************)
EXTENDS Integers, Sequences, FiniteSets

NumWaiters == 3
NumSetters == 2
MaxHandles == 2

NullNode == 0
HeadSlot == 0
NullSlot == -1

Waiters == 1..NumWaiters
Setters == (NumWaiters + 1)..(NumWaiters + NumSetters)
NoThread == 0

VARIABLES
    refcount,   \* use count of the shared_ptr<state>; the state is destroyed at 0
    mutex,      \* state::mutex: NoThread, or the thread holding it
    head,       \* state::head
    last,       \* state::last
    next,       \* next[i]: awaiter i's n.next
    handle,     \* handle[i]: awaiter i's n.handle (NullNode: the null handle)
    wpc,        \* position of each awaiting computation
    p,          \* p[i]: the local p of state::await_suspend
    spc,        \* position of each set() call
    rest,       \* rest[s]: the local rest of state::set
    hnd,        \* hnd[s]: the local handle of state::set's loop
    overwrote,  \* history: overwrote[s], the value of last that s's store replaced
    afterSet,   \* history: afterSet[i], a set() had returned when i's await began
    linkLog,    \* history: waiters in the order their nodes were linked
    resumeLog,  \* history: <<setter, waiter>> for every callback invocation, in order
    took,       \* history: took[s], the list that s's exchange detached, in order
    parent,     \* parent[x]: the set() call in whose callback x runs (NoThread: own thread)
    other,      \* use count of the state of a second, independently constructed event
    otherLast,  \* that state's `last`, as far as set() on it is concerned
    lineage     \* history: lineage[l][e], live handles descending from construction l
                \* (1: `event`, 2: the second event) that refer to state e

vars == <<refcount, mutex, head, last, next, handle, wpc, p, spc, rest, hnd,
          overwrote, afterSet, linkLog, resumeLog, took,
          parent, other, otherLast, lineage>>

histVars == <<overwrote, afterSet, linkLog, resumeLog, took>>
auxVars == <<parent, other, otherLast>>

Alive == refcount > 0

Range(q) == {q[k] : k \in DOMAIN q}

\* the nodes reachable from n through next, in order (at most fuel of them)
RECURSIVE ChainFrom(_, _)
ChainFrom(n, fuel) ==
    IF n = NullNode \/ fuel = 0 THEN <<>>
    ELSE <<n>> \o ChainFrom(next[n], fuel - 1)

Chain(n) == ChainFrom(n, NumWaiters + 1)

Init ==
    /\ refcount = 1
    /\ mutex = NoThread
    /\ head = NullNode
    /\ last = HeadSlot
    /\ next = [i \in Waiters |-> NullNode]
    /\ handle = [i \in Waiters |-> NullNode]
    /\ wpc = [i \in Waiters |-> "idle"]
    /\ p = [i \in Waiters |-> NullSlot]
    /\ spc = [s \in Setters |-> "idle"]
    /\ rest = [s \in Setters |-> NullNode]
    /\ hnd = [s \in Setters |-> NullNode]
    /\ overwrote = [s \in Setters |-> NullSlot]
    /\ afterSet = [i \in Waiters |-> FALSE]
    /\ linkLog = <<>>
    /\ resumeLog = <<>>
    /\ took = [s \in Setters |-> <<>>]
    /\ parent = [x \in Waiters \cup Setters |-> NoThread]
    /\ other = 0
    /\ otherLast = HeadSlot
    /\ lineage = <<<<1, 0>>, <<0, 0>>>>

(***************************************************************************)
(* Event handles: copy and destruction of awaitable_event values.          *)
(***************************************************************************)
InStateCall ==
    \/ \E i \in Waiters : wpc[i] \notin {"idle", "suspended", "resumed", "immediate"}
    \/ \E s \in Setters : spc[s] \in {"store", "exchange", "unlock"}

\* Faulty variant: copying an event gives the copy a state of its own.
CopyHandle_Deep ==
    /\ Alive
    /\ refcount < MaxHandles
    /\ other < MaxHandles
    /\ other' = other + 1
    /\ lineage' = [lineage EXCEPT ![1][2] = @ + 1]
    /\ UNCHANGED <<refcount, mutex, head, last, next, handle, wpc, p, spc, rest, hnd,
                   histVars, parent, otherLast>>

\* the implicit copy constructor copies `shared`: one more owner of the same state
CopyHandle ==
    /\ Alive
    /\ refcount < MaxHandles
    /\ refcount' = refcount + 1
    /\ lineage' = [lineage EXCEPT ![1][1] = @ + 1]
    /\ UNCHANGED <<mutex, head, last, next, handle, wpc, p, spc, rest, hnd, histVars, auxVars>>

\* Faulty variant: destroying the state resumes the waiters still parked on it.
DestroyHandle_Wake ==
    /\ Alive
    /\ refcount > 1 \/ ~InStateCall
    /\ refcount' = refcount - 1
    /\ wpc' = [i \in Waiters |->
                 IF refcount = 1 /\ wpc[i] = "suspended" THEN "resumed" ELSE wpc[i]]
    /\ lineage' = [lineage EXCEPT ![1][1] = @ - 1]
    /\ UNCHANGED <<mutex, head, last, next, handle, p, spc, rest, hnd, histVars, auxVars>>

\* The last handle is not dropped while a thread executes a member function of
\* the state that touches its fields (callers keep `*shared` valid for the call);
\* suspended awaiters hold only `state &s` and do not count.
DestroyHandle ==
    /\ Alive
    /\ refcount > 1 \/ ~InStateCall
    /\ refcount' = refcount - 1
    /\ lineage' = [lineage EXCEPT ![1][1] = @ - 1]
    /\ UNCHANGED <<mutex, head, last, next, handle, wpc, p, spc, rest, hnd, histVars, auxVars>>

(***************************************************************************)
(* co_await event: operator co_await, await_ready, await_suspend.          *)
(***************************************************************************)
SetReturned == \E s \in Setters : spc[s] = "done"

\* operator co_await: awaiter{*shared}; the node is value-initialized.
\* Waiters are numbered in the order their co_await expressions begin.
AwaitStart(i) ==
    /\ wpc[i] = "idle"
    /\ \A j \in Waiters : j < i => wpc[j] # "idle"
    /\ Alive
    /\ wpc' = [wpc EXCEPT ![i] = "ready"]
    /\ next' = [next EXCEPT ![i] = NullNode]
    /\ handle' = [handle EXCEPT ![i] = NullNode]
    /\ afterSet' = [afterSet EXCEPT ![i] = SetReturned]
    /\ UNCHANGED <<refcount, mutex, head, last, p, spc, rest, hnd,
                   overwrote, linkLog, resumeLog, took, auxVars, lineage>>

\* The values a relaxed load of `last` may return: the current value, or, when
\* the store of nullptr is not ordered before the load, the slot it replaced.
RelaxedLoads(l) == IF l = NullSlot THEN {NullSlot, HeadSlot} ELSE {l}

\* Faulty variant: the test is inverted (return last.load() != nullptr).
AwaitReady_Inverted(i) ==
    /\ wpc[i] = "ready"
    /\ \E v \in RelaxedLoads(last) :
         wpc' = [wpc EXCEPT ![i] = IF v # NullSlot THEN "immediate" ELSE "lock"]
    /\ UNCHANGED <<refcount, mutex, head, last, next, handle, p, spc, rest, hnd, histVars, auxVars, lineage>>

\* state::await_ready: return !last.load();
AwaitReady(i) ==
    /\ wpc[i] = "ready"
    /\ \E v \in RelaxedLoads(last) :
         wpc' = [wpc EXCEPT ![i] = IF v = NullSlot THEN "immediate" ELSE "lock"]
    /\ UNCHANGED <<refcount, mutex, head, last, next, handle, p, spc, rest, hnd, histVars, auxVars, lineage>>

\* Faulty variant: the callback is not stored in the node before it is linked.
AwaitLock_NoHandle(i) ==
    /\ wpc[i] = "lock"
    /\ mutex = NoThread
    /\ mutex' = i
    /\ wpc' = [wpc EXCEPT ![i] = "load"]
    /\ UNCHANGED <<refcount, head, last, next, handle, p, spc, rest, hnd, histVars, auxVars, lineage>>

\* awaiter::await_suspend: n.handle = handle; then state::await_suspend:
\* auto guard = std::lock_guard(mutex);  (the node is not yet shared, so the
\* store to n.handle is taken together with the acquisition that follows it)
AwaitLock(i) ==
    /\ wpc[i] = "lock"
    /\ mutex = NoThread
    /\ handle' = [handle EXCEPT ![i] = i]
    /\ mutex' = i
    /\ wpc' = [wpc EXCEPT ![i] = "load"]
    /\ UNCHANGED <<refcount, head, last, next, p, spc, rest, hnd, histVars, auxVars, lineage>>

\* Faulty variant: the re-validation of `last` under the lock is missing.
AwaitLoad_Unchecked(i) ==
    /\ wpc[i] = "load"
    /\ p' = [p EXCEPT ![i] = last]
    /\ wpc' = [wpc EXCEPT ![i] = "link"]
    /\ UNCHANGED <<refcount, mutex, head, last, next, handle, spc, rest, hnd, histVars, auxVars, lineage>>

\* auto p = last.load(); if (!p) return false;
AwaitLoad(i) ==
    /\ wpc[i] = "load"
    /\ p' = [p EXCEPT ![i] = last]
    /\ wpc' = [wpc EXCEPT ![i] = IF last = NullSlot THEN "unlockfalse" ELSE "link"]
    /\ UNCHANGED <<refcount, mutex, head, last, next, handle, spc, rest, hnd, histVars, auxVars, lineage>>

\* Faulty variant: the node is pushed at the front of the list (n.next = head; head = &n).
AwaitLink_Prepend(i) ==
    /\ wpc[i] = "link"
    /\ next' = [next EXCEPT ![i] = head]
    /\ head' = i
    /\ linkLog' = Append(linkLog, i)
    /\ wpc' = [wpc EXCEPT ![i] = "setlast"]
    /\ UNCHANGED <<refcount, mutex, last, handle, p, spc, rest, hnd,
                   overwrote, afterSet, resumeLog, took, auxVars, lineage>>

\* *p = &n;
AwaitLink(i) ==
    /\ wpc[i] = "link"
    /\ IF p[i] = HeadSlot
         THEN head' = i /\ next' = next
         ELSE next' = [next EXCEPT ![p[i]] = i] /\ head' = head
    /\ linkLog' = Append(linkLog, i)
    /\ wpc' = [wpc EXCEPT ![i] = "setlast"]
    /\ UNCHANGED <<refcount, mutex, last, handle, p, spc, rest, hnd,
                   overwrote, afterSet, resumeLog, took, auxVars, lineage>>

\* Faulty variant: the cursor is not advanced to the new node's next field.
AwaitSetLast_Stale(i) ==
    /\ wpc[i] = "setlast"
    /\ wpc' = [wpc EXCEPT ![i] = "setnext"]
    /\ UNCHANGED <<refcount, mutex, head, last, next, handle, p, spc, rest, hnd, histVars, auxVars, lineage>>

\* last = &n.next;
AwaitSetLast(i) ==
    /\ wpc[i] = "setlast"
    /\ last' = i
    /\ wpc' = [wpc EXCEPT ![i] = "setnext"]
    /\ UNCHANGED <<refcount, mutex, head, next, handle, p, spc, rest, hnd, histVars, auxVars, lineage>>

\* n.next = nullptr;
AwaitSetNext(i) ==
    /\ wpc[i] = "setnext"
    /\ next' = [next EXCEPT ![i] = NullNode]
    /\ wpc' = [wpc EXCEPT ![i] = "unlocktrue"]
    /\ UNCHANGED <<refcount, mutex, head, last, handle, p, spc, rest, hnd, histVars, auxVars, lineage>>

\* Faulty variant: await_suspend reports "not suspended" although the node was linked.
AwaitReturnTrue_False(i) ==
    /\ wpc[i] = "unlocktrue"
    /\ mutex = i
    /\ mutex' = NoThread
    /\ wpc' = [wpc EXCEPT ![i] = "immediate"]
    /\ UNCHANGED <<refcount, head, last, next, handle, p, spc, rest, hnd, histVars, auxVars, lineage>>

\* return true; the guard releases the mutex and the computation stays suspended.
AwaitReturnTrue(i) ==
    /\ wpc[i] = "unlocktrue"
    /\ mutex = i
    /\ mutex' = NoThread
    /\ wpc' = [wpc EXCEPT ![i] = "suspended"]
    /\ UNCHANGED <<refcount, head, last, next, handle, p, spc, rest, hnd, histVars, auxVars, lineage>>

\* return false; the guard releases the mutex and the computation continues.
AwaitReturnFalse(i) ==
    /\ wpc[i] = "unlockfalse"
    /\ mutex = i
    /\ mutex' = NoThread
    /\ wpc' = [wpc EXCEPT ![i] = "immediate"]
    /\ UNCHANGED <<refcount, head, last, next, handle, p, spc, rest, hnd, histVars, auxVars, lineage>>

(***************************************************************************)
(* awaitable_event::set -> state::set.                                     *)
(***************************************************************************)
\* Faulty variant: set() enters its critical section without taking the mutex.
SetLock_NoGuard(s) ==
    /\ spc[s] = "idle"
    /\ \A t \in Setters : t < s => spc[t] # "idle"
    /\ Alive
    /\ rest' = [rest EXCEPT ![s] = NullNode]
    /\ spc' = [spc EXCEPT ![s] = "store"]
    /\ UNCHANGED <<refcount, mutex, head, last, next, handle, wpc, p, hnd, histVars, auxVars, lineage>>

\* shared->set(): node *rest = nullptr; auto guard = std::lock_guard(mutex);
\* set() calls are numbered in the order they acquire the mutex.
SetLock(s) ==
    /\ spc[s] = "idle"
    /\ \A t \in Setters : t < s => spc[t] # "idle"
    /\ Alive
    /\ mutex = NoThread
    /\ mutex' = s
    /\ rest' = [rest EXCEPT ![s] = NullNode]
    /\ spc' = [spc EXCEPT ![s] = "store"]
    /\ UNCHANGED <<refcount, head, last, next, handle, wpc, p, hnd, histVars, auxVars, lineage>>

\* Faulty variant: set() resets the cursor to &head instead of storing nullptr.
SetStoreLast_Reset(s) ==
    /\ spc[s] = "store"
    /\ last' = HeadSlot
    /\ overwrote' = [overwrote EXCEPT ![s] = last]
    /\ spc' = [spc EXCEPT ![s] = "exchange"]
    /\ UNCHANGED <<refcount, mutex, head, next, handle, wpc, p, rest, hnd,
                   afterSet, linkLog, resumeLog, took, auxVars, lineage>>

\* last.store(nullptr);
SetStoreLast(s) ==
    /\ spc[s] = "store"
    /\ last' = NullSlot
    /\ overwrote' = [overwrote EXCEPT ![s] = last]
    /\ spc' = [spc EXCEPT ![s] = "exchange"]
    /\ UNCHANGED <<refcount, mutex, head, next, handle, wpc, p, rest, hnd,
                   afterSet, linkLog, resumeLog, took, auxVars, lineage>>

\* Faulty variant: rest = head; the list is read but not detached.
SetExchange_NoClear(s) ==
    /\ spc[s] = "exchange"
    /\ rest' = [rest EXCEPT ![s] = head]
    /\ took' = [took EXCEPT ![s] = Chain(head)]
    /\ spc' = [spc EXCEPT ![s] = "unlock"]
    /\ UNCHANGED <<refcount, mutex, head, last, next, handle, wpc, p, hnd,
                   overwrote, afterSet, linkLog, resumeLog, auxVars, lineage>>

\* rest = std::exchange(head, nullptr);
SetExchange(s) ==
    /\ spc[s] = "exchange"
    /\ rest' = [rest EXCEPT ![s] = head]
    /\ head' = NullNode
    /\ took' = [took EXCEPT ![s] = Chain(head)]
    /\ spc' = [spc EXCEPT ![s] = "unlock"]
    /\ UNCHANGED <<refcount, mutex, last, next, handle, wpc, p, hnd,
                   overwrote, afterSet, linkLog, resumeLog, auxVars, lineage>>

\* Faulty variant: the guard lives to the end of set(), so the walk runs locked.
SetUnlock_Late(s) ==
    /\ spc[s] = "unlock"
    /\ mutex = s
    /\ spc' = [spc EXCEPT ![s] = "walk"]
    /\ UNCHANGED <<refcount, mutex, head, last, next, handle, wpc, p, rest, hnd, histVars, auxVars, lineage>>

\* the guard's scope ends
SetUnlock(s) ==
    /\ spc[s] = "unlock"
    /\ mutex = s
    /\ mutex' = NoThread
    /\ spc' = [spc EXCEPT ![s] = "walk"]
    /\ UNCHANGED <<refcount, head, last, next, handle, wpc, p, rest, hnd, histVars, auxVars, lineage>>

\* Faulty variant: rest is advanced only after the callback has run.
SetWalkFetch_AdvanceLate(s) ==
    /\ spc[s] = "walk"
    /\ rest[s] # NullNode
    /\ hnd' = [hnd EXCEPT ![s] = handle[rest[s]]]
    /\ spc' = [spc EXCEPT ![s] = "invoke"]
    /\ UNCHANGED <<refcount, mutex, head, last, next, handle, wpc, p, rest, histVars, auxVars, lineage>>

\* while (rest) { auto handle = rest->handle; rest = rest->next;
SetWalkFetch(s) ==
    /\ spc[s] = "walk"
    /\ rest[s] # NullNode
    /\ hnd' = [hnd EXCEPT ![s] = handle[rest[s]]]
    /\ rest' = [rest EXCEPT ![s] = next[rest[s]]]
    /\ spc' = [spc EXCEPT ![s] = "invoke"]
    /\ UNCHANGED <<refcount, mutex, head, last, next, handle, wpc, p, histVars, auxVars, lineage>>

\* handle(); }  resumes the computation on the calling thread
SetWalkInvoke(s) ==
    /\ spc[s] = "invoke"
    /\ resumeLog' = Append(resumeLog, <<s, hnd[s]>>)
    /\ wpc' = [i \in Waiters |-> IF i = hnd[s] THEN "resumed" ELSE wpc[i]]
    /\ spc' = [spc EXCEPT ![s] = "walk"]
    /\ UNCHANGED <<refcount, mutex, head, last, next, handle, p, rest, hnd,
                   overwrote, afterSet, linkLog, took, auxVars, lineage>>

\* Faulty variant: the loop condition is `rest && rest->next`, so the walk stops one short.
SetReturn_Early(s) ==
    /\ spc[s] = "walk"
    /\ IF rest[s] = NullNode THEN TRUE ELSE next[rest[s]] = NullNode
    /\ spc' = [spc EXCEPT ![s] = "done"]
    /\ UNCHANGED <<refcount, mutex, head, last, next, handle, wpc, p, rest, hnd, histVars, auxVars, lineage>>

\* the loop ends and set() returns
SetReturn(s) ==
    /\ spc[s] = "walk"
    /\ rest[s] = NullNode
    /\ spc' = [spc EXCEPT ![s] = "done"]
    /\ UNCHANGED <<refcount, mutex, head, last, next, handle, wpc, p, rest, hnd, histVars, auxVars, lineage>>

WaiterStep(i) ==
    \/ AwaitStart(i)
    \/ AwaitReady(i)
    \/ AwaitLock(i)
    \/ AwaitLoad(i)
    \/ AwaitLink(i)
    \/ AwaitSetLast(i)
    \/ AwaitSetNext(i)
    \/ AwaitReturnTrue(i)
    \/ AwaitReturnFalse(i)

SetterStep(s) ==
    \/ SetLock(s)
    \/ SetStoreLast(s)
    \/ SetExchange(s)
    \/ SetUnlock(s)
    \/ SetWalkFetch(s)
    \/ SetWalkInvoke(s)
    \/ SetReturn(s)

Next ==
    \/ CopyHandle
    \/ DestroyHandle
    \/ \E i \in Waiters : WaiterStep(i)
    \/ \E s \in Setters : SetterStep(s)

Spec == Init /\ [][Next]_vars

(***************************************************************************)
(* The scenario of src/testbed/main.cpp: `event` is a global, so its one   *)
(* handle lives for the whole run; every thread is scheduled fairly.       *)
(***************************************************************************)
LiveNext ==
    \/ \E i \in Waiters : WaiterStep(i)
    \/ \E s \in Setters : SetterStep(s)

Fairness ==
    /\ \A i \in Waiters : WF_vars(WaiterStep(i))
    /\ \A s \in Setters : WF_vars(SetterStep(s))

LiveSpec == Init /\ [][LiveNext]_vars /\ Fairness

(***************************************************************************)
(* Derived notions used by the properties.                                 *)
(***************************************************************************)
ResumeCount(i) == Cardinality({k \in DOMAIN resumeLog : resumeLog[k][2] = i})
ResumedBy(i) == {resumeLog[k][1] : k \in {j \in DOMAIN resumeLog : resumeLog[j][2] = i}}
ResumedOrder == [k \in DOMAIN resumeLog |-> resumeLog[k][2]]

\* set() calls whose critical section has run
PastCS(s) == spc[s] \in {"walk", "invoke", "done"}
Fired == \E s \in Setters : PastCS(s)
\* s stored nullptr over nullptr: the event had fired before s's critical section
OnFired(s) == spc[s] \notin {"idle", "store"} /\ overwrote[s] = NullSlot

Continued(i) == wpc[i] \in {"immediate", "resumed"}

\* the places that hold node i on its way from linking to resumption
InList(i) == i \in Range(Chain(head))
Detached(i) == {s \in Setters : i \in Range(Chain(rest[s]))}
Fetched(i) == {s \in Setters : spc[s] = "invoke" /\ hnd[s] = i}
Holders(i) ==
    (IF InList(i) THEN 1 ELSE 0) + Cardinality(Detached(i)) + Cardinality(Fetched(i))

TypeOK ==
    /\ refcount \in 0..MaxHandles
    /\ mutex \in {NoThread} \cup Waiters \cup Setters
    /\ head \in {NullNode} \cup Waiters
    /\ last \in {NullSlot, HeadSlot} \cup Waiters
    /\ next \in [Waiters -> {NullNode} \cup Waiters]
    /\ handle \in [Waiters -> {NullNode} \cup Waiters]
    /\ p \in [Waiters -> {NullSlot, HeadSlot} \cup Waiters]
    /\ rest \in [Setters -> {NullNode} \cup Waiters]
    /\ hnd \in [Setters -> {NullNode} \cup Waiters]
    /\ parent \in [Waiters \cup Setters -> {NoThread} \cup Setters]
    /\ other \in 0..MaxHandles
    /\ otherLast \in {NullSlot, HeadSlot}


(***************************************************************************)
(* Properties.                                                             *)
(***************************************************************************)

\* C1 (wait-then-fire): no callback is ever invoked twice, and when the set()
\* call that fired the event has returned, the callback of every waiter whose
\* node was linked has been invoked exactly once, by that call.
C1_WaitThenFire ==
    /\ \A i \in Waiters : ResumeCount(i) <= 1
    /\ \A s \in Setters :
         (spc[s] = "done" /\ ~OnFired(s)) =>
            \A i \in Range(linkLog) : ResumeCount(i) = 1 /\ ResumedBy(i) = {s}

\* one set() has resumed every waiter of the model, all of them suspended before it
C1_Witness ==
    \E s \in Setters :
        /\ spc[s] = "done"
        /\ ~OnFired(s)
        /\ Len(linkLog) = NumWaiters
        /\ \A i \in Waiters : ResumedBy(i) = {s}

\* C2 (fire-then-wait): an await that began after some set() had returned never
\* links its node and never suspends: it is on the way to, or at, the immediate
\* continuation (await_ready true, or await_suspend false).
C2_FireThenWait ==
    \A i \in Waiters :
        afterSet[i] =>
            /\ i \notin Range(linkLog)
            /\ wpc[i] \in {"ready", "lock", "load", "unlockfalse", "immediate"}
            /\ ResumeCount(i) = 0

\* an await begun after set() returned read a stale `last` in await_ready and was
\* turned away by await_suspend; another one took the fast path
C2_Witness ==
    \E i, j \in Waiters :
        /\ afterSet[i] /\ wpc[i] = "unlockfalse"
        /\ afterSet[j] /\ wpc[j] = "immediate" /\ handle[j] = NullNode

\* C3 (no lost wakeup under a race): a node is linked only while no set() has run
\* its critical section; a computation that continued immediately saw the event
\* fired, was never linked and is never resumed by set(); and a linked node is at
\* every moment in exactly one place: the wait list, one set()'s detached list
\* (or its fetched handle), or already resumed exactly once.
C3_NoLostWakeup ==
    \A i \in Waiters :
        /\ wpc[i] \in {"link", "setlast", "setnext", "unlocktrue"} => ~Fired /\ last # NullSlot
        /\ wpc[i] \in {"unlockfalse", "immediate"} =>
              /\ last = NullSlot
              /\ i \notin Range(linkLog)
              /\ ResumeCount(i) = 0
        /\ ResumeCount(i) > 0 => i \in Range(linkLog)
        /\ i \in Range(linkLog) =>
              /\ Holders(i) + ResumeCount(i) = 1
              /\ Fired => ~InList(i)

\* the race: one await passed await_ready before the event fired and was turned
\* away under the lock, while a waiter linked before it is being resumed
C3_Witness ==
    \E i, j \in Waiters :
        /\ ~afterSet[i] /\ wpc[i] = "unlockfalse"
        /\ j \in Range(linkLog)
        /\ \E s \in Setters : spc[s] = "invoke" /\ hnd[s] = j

\* C4 (FIFO): the callbacks invoked so far are, in order, the first waiters in
\* the order their nodes were linked under the lock.
C4_FIFO ==
    /\ Len(resumeLog) <= Len(linkLog)
    /\ \A k \in DOMAIN resumeLog : ResumedOrder[k] = linkLog[k]

\* three waiters linked in an order other than the one they began in, all resumed
C4_Witness ==
    /\ Len(resumeLog) >= 3
    /\ linkLog[1] # 1
    /\ linkLog[2] # 2

\* C5 (idempotent set): a set() whose store found the event already fired detaches
\* nothing and invokes nothing, finds and leaves head null and last null, and no
\* waiter is resumed by two set() calls.
C5_IdempotentSet ==
    /\ \A s \in Setters :
         OnFired(s) =>
            /\ rest[s] = NullNode
            /\ spc[s] # "invoke"
            /\ \A k \in DOMAIN resumeLog : resumeLog[k][1] # s
            /\ spc[s] \in {"exchange", "unlock"} => head = NullNode /\ last = NullSlot
    /\ \A i \in Waiters : Cardinality(ResumedBy(i)) <= 1 /\ ResumeCount(i) <= 1

\* a second set() has returned while the first one is still resuming waiters
C5_Witness ==
    \E s, t \in Setters :
        /\ spc[s] = "done" /\ OnFired(s)
        /\ spc[t] = "invoke" /\ rest[t] # NullNode

\* C6 (monotonicity): once last is null, no step makes it non-null.
C6_Monotonic == [][last = NullSlot => last' = NullSlot]_vars

\* after the event fired, a second set() stored, an await was turned away by
\* await_suspend and a handle was copied
C6_Witness ==
    /\ last = NullSlot
    /\ \E s \in Setters : spc[s] = "done" /\ OnFired(s)
    /\ \E i \in Waiters : wpc[i] = "immediate" /\ handle[i] = i
    /\ refcount = 2

\* C7 (fired-flag invariant): with the lock free, last is null exactly when some
\* set() has run its critical section, and then head is null; and an empty list
\* of a fired event stays empty.
C7_FiredFlag ==
    /\ [](mutex = NoThread => ((last = NullSlot) <=> Fired))
    /\ [](mutex = NoThread /\ last = NullSlot => head = NullNode)
    /\ [][last = NullSlot /\ head = NullNode => head' = NullNode]_vars

\* the event fired with waiters linked, the lock is free again, and a later await
\* went through await_suspend without linking
C7_Witness ==
    /\ mutex = NoThread
    /\ last = NullSlot /\ head = NullNode
    /\ Len(linkLog) >= 2
    /\ \E i \in Waiters : wpc[i] = "immediate" /\ handle[i] = i /\ i \notin Range(linkLog)

\* C8 (liveness of the test scenario): under fair scheduling every awaiting
\* computation continues past its await and every set() returns.
AllFinished ==
    /\ \A i \in Waiters : Continued(i)
    /\ \A s \in Setters : spc[s] = "done"

C8_Terminates == <>[]AllFinished

\* the run has ended with waiters resumed by set() and a waiter that did not suspend
C8_Witness ==
    /\ AllFinished
    /\ \E i \in Waiters : wpc[i] = "resumed"
    /\ \E i \in Waiters : wpc[i] = "immediate"

\* C9 (no cancellation, no spontaneous wakeup): a computation whose node is linked
\* continues only in a step in which a set() call invokes its callback; while no
\* set() has been called no callback has been invoked.
C9_OnlySetResumes ==
    /\ []((\A s \in Setters : spc[s] = "idle") =>
              resumeLog = <<>> /\ \A i \in Waiters : wpc[i] # "resumed")
    /\ [][\A i \in Waiters :
             (i \in Range(linkLog) /\ ~Continued(i) /\ Continued(i)') =>
                \E s \in Setters :
                    /\ spc[s] = "invoke" /\ hnd[s] = i
                    /\ resumeLog' = Append(resumeLog, <<s, i>>)]_vars

\* every waiter is parked, no set() has been called, and the last handle is gone
C9_Witness ==
    /\ \A s \in Setters : spc[s] = "idle"
    /\ \A i \in Waiters : wpc[i] = "suspended"
    /\ refcount = 0

\* C10 (state lifetime as documented in sync.h): the shared state is not destroyed
\* while a waiter's node is linked in its wait list.
C10_StateOutlivesWaiters == head # NullNode => Alive

NodeAlive(i) == wpc[i] \notin {"idle", "immediate", "resumed"}

\* x is inside a critical section of the state's mutex
InCS(x) ==
    IF x \in Waiters
      THEN wpc[x] \in {"load", "link", "setlast", "setnext", "unlocktrue", "unlockfalse"}
      ELSE spc[x] \in {"store", "exchange", "unlock"}

\* thread x takes the step
Moved(x) == IF x \in Waiters THEN wpc'[x] # wpc[x] ELSE spc'[x] # spc[x]

\* C14 (synchronous broadcast): when a set() call has returned, the shared list is
\* empty and the callback of every waiter that was in the list when that call
\* detached it has been invoked by that call (on its thread).
C14_SyncBroadcast ==
    \A s \in Setters :
        spc[s] = "done" =>
            /\ head = NullNode
            /\ \A k \in DOMAIN took[s] :
                 /\ <<s, took[s][k]>> \in Range(resumeLog)
                 /\ wpc[took[s][k]] = "resumed"

\* a set() that detached two or more waiters has returned while an await that
\* came too late is still on its way through await_suspend
C14_Witness ==
    \E s \in Setters :
        /\ spc[s] = "done"
        /\ Len(took[s]) >= 2
        /\ \E i \in Waiters : wpc[i] = "lock"

\* C15 (safe walk of the detached list): a step of set() after its unlock changes
\* no field of the shared state; every node still on a detached list is alive when
\* the walk comes to read it, and a node whose callback was invoked is no longer
\* reachable from rest, also when the state is destroyed during the walk.
C15_SafeWalk ==
    /\ [](\A s \in Setters :
            /\ \A i \in Range(Chain(rest[s])) : NodeAlive(i) /\ wpc[i] = "suspended"
            /\ \A k \in DOMAIN resumeLog : resumeLog[k][2] \notin Range(Chain(rest[s])))
    /\ [][\A s \in Setters :
            (PastCS(s) /\ Moved(s)) => UNCHANGED <<refcount, mutex, head, last, next, handle>>]_vars

\* the last handle was dropped in the middle of a walk: one waiter has been
\* resumed, the state is gone and the walk still has a live node to visit
C15_Witness ==
    \E s \in Setters :
        /\ ~Alive
        /\ spc[s] = "walk"
        /\ rest[s] # NullNode
        /\ Len(resumeLog) >= 1

\* C16 (try-link): await_suspend takes the false path exactly when last is null
\* under the lock, and then changes nothing; on the true path, by the time it
\* returns the node is the new tail (the slot last pointed at holds it, last is its
\* next field, its next is null) and the list is the earlier list followed by it.
C16_TryLink ==
    /\ [](\A i \in Waiters :
            /\ wpc[i] \in {"link", "setlast", "setnext", "unlocktrue"} => p[i] # NullSlot
            /\ wpc[i] = "unlockfalse" =>
                 /\ p[i] = NullSlot /\ last = NullSlot
                 /\ i \notin Range(linkLog) /\ ~InList(i)
                 /\ next[i] = NullNode /\ handle[i] = i
            /\ wpc[i] = "unlocktrue" =>
                 /\ Chain(head) = linkLog
                 /\ linkLog[Len(linkLog)] = i
                 /\ last = i /\ next[i] = NullNode
                 /\ IF p[i] = HeadSlot THEN head = i ELSE next[p[i]] = i)
    /\ [][\A i \in Waiters :
            /\ (wpc[i] \in {"load", "unlockfalse"} /\ wpc'[i] \in {"unlockfalse", "immediate"}) =>
                  UNCHANGED <<head, last, next, handle, linkLog>>
            /\ (wpc[i] = "link" /\ wpc'[i] # "link") =>
                  Chain(head)' = Append(Chain(head), i)]_vars

\* a third node has been appended behind two earlier ones
C16_Witness ==
    \E i \in Waiters :
        /\ wpc[i] = "unlocktrue"
        /\ p[i] \in Waiters
        /\ Len(Chain(head)) = 3

\* C17 (fast-path soundness): a step of await_ready changes nothing but the
\* caller's position (it takes no lock), and it answers true only when last is
\* null, which some set() has stored.
C17_FastPath ==
    [][\A i \in Waiters :
         (wpc[i] = "ready" /\ wpc'[i] # "ready") =>
            /\ UNCHANGED <<refcount, mutex, head, last, next, handle, p, spc, rest, hnd, histVars>>
            /\ wpc'[i] = "immediate" =>
                 /\ last = NullSlot
                 /\ \E s \in Setters : spc[s] \notin {"idle", "store"}]_vars

\* await_ready answered true while the first set() was still inside its critical
\* section, between the store to last and the exchange of head
C17_Witness ==
    \E i \in Waiters, s \in Setters :
        /\ wpc[i] = "immediate" /\ handle[i] = NullNode
        /\ mutex = s /\ spc[s] = "exchange"
        /\ head # NullNode
        /\ \A t \in Setters : t # s => spc[t] = "idle"

\* C18 (lock discipline): the thread inside a critical section is the mutex
\* holder and there is at most one; every step that changes head, last or a next
\* field is a step of the thread that holds the mutex before and after it.
C18_LockDiscipline ==
    /\ [](\A x \in Waiters \cup Setters : InCS(x) <=> mutex = x)
    /\ [][(head' # head \/ last' # last \/ next' # next) =>
            /\ mutex # NoThread
            /\ mutex' = mutex
            /\ Moved(mutex)]_vars

\* a set() is detaching a non-empty list while an await is blocked on the mutex
C18_Witness ==
    \E s \in Setters, j \in Waiters :
        /\ mutex = s /\ spc[s] = "unlock"
        /\ took[s] # <<>>
        /\ wpc[j] = "lock"

\* C19 (wait-list structure): with the lock free and the event unfired, the chain
\* from head ends in null without repeating a node, holds exactly the suspended
\* waiters, in link order, and last is the next field of its final node, or &head
\* when it is empty.
C19_ListStructure ==
    (mutex = NoThread /\ last # NullSlot) =>
        LET c == Chain(head) IN
            /\ Len(c) <= NumWaiters
            /\ Cardinality(Range(c)) = Len(c)
            /\ Range(c) = {i \in Waiters : wpc[i] = "suspended"}
            /\ c = linkLog
            /\ IF c = <<>> THEN last = HeadSlot
                           ELSE last = c[Len(c)] /\ next[c[Len(c)]] = NullNode

\* three waiters are parked on the unfired event
C19_Witness ==
    /\ mutex = NoThread
    /\ last # NullSlot
    /\ Len(Chain(head)) = 3
    /\ Alive

\* C20 (node complete before visible): every node reachable from head or from a
\* detached list carries its callback, so the handle set() fetches is never the
\* null handle; when await_suspend releases the lock on the true path the node's
\* next is null, and that step and everything after it until the resumption
\* leaves the node's callback alone.
C20_NodeComplete ==
    /\ [](\A i \in Waiters : (InList(i) \/ Detached(i) # {}) => handle[i] = i)
    /\ [](\A s \in Setters : spc[s] = "invoke" => hnd[s] \in Waiters)
    /\ [][\A i \in Waiters :
            /\ (wpc[i] = "unlocktrue" /\ wpc'[i] # "unlocktrue") =>
                  next[i] = NullNode /\ UNCHANGED <<next, handle>>
            /\ wpc[i] = "suspended" =>
                  handle'[i] = handle[i] /\ wpc'[i] \in {"suspended", "resumed"}]_vars

\* set() has fetched the callback of a parked waiter and its successor is next
C20_Witness ==
    \E s \in Setters :
        /\ spc[s] = "invoke"
        /\ hnd[s] \in Waiters
        /\ wpc[hnd[s]] = "suspended"
        /\ rest[s] = next[hnd[s]]
        /\ rest[s] # NullNode


(***************************************************************************)
(* Reentrancy: handle() runs the resumed computation on the thread of the  *)
(* set() call, and that computation may call set() or co_await the same    *)
(* event before it returns to the walk.  parent[x] names the set() call in *)
(* whose callback the call x runs.                                         *)
(***************************************************************************)
RECURSIVE RootFrom(_, _)
RootFrom(x, fuel) ==
    IF x = NoThread \/ fuel = 0 THEN x
    ELSE IF parent[x] = NoThread THEN x ELSE RootFrom(parent[x], fuel - 1)

\* the thread on which call x executes
Thread(x) == RootFrom(x, NumSetters + 1)

Children(s) == {x \in Waiters \cup Setters : parent[x] = s}

\* call x has returned control to its caller
Returned(x) ==
    IF x \in Waiters THEN wpc[x] \in {"immediate", "suspended", "resumed"}
    ELSE spc[x] = "done"

\* handle(): the resumed computation starts running inside set()'s loop
SetWalkInvokeEnter(s) ==
    /\ spc[s] = "invoke"
    /\ resumeLog' = Append(resumeLog, <<s, hnd[s]>>)
    /\ wpc' = [i \in Waiters |-> IF i = hnd[s] THEN "resumed" ELSE wpc[i]]
    /\ spc' = [spc EXCEPT ![s] = "callback"]
    /\ UNCHANGED <<refcount, mutex, head, last, next, handle, p, rest, hnd,
                   overwrote, afterSet, linkLog, took, auxVars, lineage>>

\* the resumed computation calls event.set(): a new activation of state::set
\* on the same thread, which then proceeds through SetLock
NestedSetCall(s, t) ==
    /\ spc[s] = "callback"
    /\ \A x \in Children(s) : Returned(x)
    /\ spc[t] = "idle" /\ parent[t] = NoThread
    /\ \A u \in Setters : u < t => spc[u] # "idle"
    /\ Alive
    /\ parent' = [parent EXCEPT ![t] = s]
    /\ UNCHANGED <<refcount, mutex, head, last, next, handle, wpc, p, spc, rest, hnd,
                   histVars, other, otherLast, lineage>>

\* the resumed computation evaluates co_await event on the same thread
CallbackAwait(s, j) ==
    /\ spc[s] = "callback"
    /\ \A x \in Children(s) : Returned(x)
    /\ wpc[j] = "idle"
    /\ \A k \in Waiters : k < j => wpc[k] # "idle"
    /\ Alive
    /\ parent' = [parent EXCEPT ![j] = s]
    /\ wpc' = [wpc EXCEPT ![j] = "ready"]
    /\ next' = [next EXCEPT ![j] = NullNode]
    /\ handle' = [handle EXCEPT ![j] = NullNode]
    /\ afterSet' = [afterSet EXCEPT ![j] = SetReturned]
    /\ UNCHANGED <<refcount, mutex, head, last, p, spc, rest, hnd,
                   overwrote, linkLog, resumeLog, took, other, otherLast, lineage>>

\* handle() returns to the loop of state::set
CallbackReturn(s) ==
    /\ spc[s] = "callback"
    /\ \A x \in Children(s) : Returned(x)
    /\ spc' = [spc EXCEPT ![s] = "walk"]
    /\ UNCHANGED <<refcount, mutex, head, last, next, handle, wpc, p, rest, hnd,
                   histVars, auxVars, lineage>>

\* A top-level thread does not start a call while it is inside another: every
\* call with a parent runs only while the parent waits in its callback.
ReentrantNext ==
    \/ LiveNext
    \/ \E s \in Setters : SetWalkInvokeEnter(s)
    \/ \E s \in Setters : \E t \in Setters : NestedSetCall(s, t)
    \/ \E s \in Setters : \E j \in Waiters : CallbackAwait(s, j)
    \/ \E s \in Setters : CallbackReturn(s)

ReentrantSpec == Init /\ [][ReentrantNext]_vars

\* call x is about to acquire state::mutex
Requesting(x) ==
    IF x \in Waiters THEN wpc[x] = "lock"
    ELSE spc[x] = "idle" /\ parent[x] # NoThread

\* the nodes of s's detached list whose callbacks s has not yet invoked
Pending(s) == {i \in Range(took[s]) : s \notin ResumedBy(i)}

\* C13 (callbacks outside the lock, reentrancy): a set() call does not hold the
\* mutex while it fetches or invokes a callback or while the callback runs; no
\* call that is about to lock the mutex finds it held by a call of its own
\* thread, so a set() or co_await made from a callback is never blocked by its
\* own thread; while a callback runs and after it returns, the outer call's
\* rest still leads to exactly the detached nodes it has not yet invoked, all
\* still suspended; no callback is invoked twice, and a returned set() call
\* has invoked every node it detached.
C13_Reentrancy ==
    /\ \A s \in Setters :
         /\ spc[s] \in {"walk", "invoke", "callback", "done"} => mutex # s
         /\ spc[s] \in {"walk", "callback"} =>
               /\ Range(Chain(rest[s])) = Pending(s)
               /\ \A i \in Pending(s) : wpc[i] = "suspended"
         /\ spc[s] = "done" => Pending(s) = {}
    /\ \A x \in Waiters \cup Setters :
         (Requesting(x) /\ mutex # NoThread) => Thread(mutex) # Thread(x)
    /\ \A i \in Waiters : ResumeCount(i) <= 1

\* a callback of an outer walk with nodes left has made a nested set() call
\* and a nested co_await, and both have returned
C13_Witness ==
    \E s \in Setters :
        /\ spc[s] = "callback"
        /\ rest[s] # NullNode
        /\ \E t \in Setters : parent[t] = s /\ spc[t] = "done"
        /\ \E j \in Waiters : parent[j] = s /\ wpc[j] = "immediate"


(***************************************************************************)
(* Aliasing: awaitable_event has the implicit copy operations, which copy  *)
(* the shared_ptr member, and the default member initializer               *)
(* make_shared<state>() gives every independently constructed event a      *)
(* state of its own.  A second event, constructed on its own, stands for   *)
(* the independent handles; nothing waits on it.                           *)
(***************************************************************************)
\* awaitable_event other;  shared = std::make_shared<state>()
ConstructOther ==
    /\ other = 0
    /\ other' = 1
    /\ otherLast' = HeadSlot
    /\ lineage' = [lineage EXCEPT ![2][2] = @ + 1]
    /\ UNCHANGED <<refcount, mutex, head, last, next, handle, wpc, p, spc, rest, hnd,
                   histVars, parent>>

\* a handle of the second event is destroyed; its state goes with the last
\* one, and no value of that state's fields is kept
DestroyOther ==
    /\ other > 0
    /\ lineage[2][2] > 0
    /\ other' = other - 1
    /\ otherLast' = IF other = 1 THEN HeadSlot ELSE otherLast
    /\ lineage' = [lineage EXCEPT ![2][2] = @ - 1]
    /\ UNCHANGED <<refcount, mutex, head, last, next, handle, wpc, p, spc, rest, hnd,
                   histVars, parent>>

\* other.set(): with an empty wait list the call stores nullptr into that
\* state's last, exchanges an empty head and walks nothing
SetOther ==
    /\ other > 0
    /\ otherLast = HeadSlot
    /\ otherLast' = NullSlot
    /\ UNCHANGED <<refcount, mutex, head, last, next, handle, wpc, p, spc, rest, hnd,
                   histVars, parent, other, lineage>>

AliasNext ==
    \/ Next
    \/ ConstructOther
    \/ DestroyOther
    \/ SetOther

AliasSpec == Init /\ [][AliasNext]_vars

====
